---- MODULE Spec2Model ----
(***************************************************************************)
(* Model of scorer/scorer_wn.py (SemEval-2015 task 13 scorer).             *)
(*                                                                         *)
(* A Python str is a sequence of one-character strings, a file is the      *)
(* sequence of its lines (without the line terminator), a dict is a        *)
(* function together with the sequence of its keys in insertion order, and *)
(* a float is the exact fraction <<numerator, denominator>> in lowest      *)
(* terms (the scores are quotients of small integers).                     *)
(***************************************************************************)
EXTENDS Integers, Sequences, FiniteSets, TLC

VARIABLES gs_file, system_file, docs,
          pc, exc, line_no, doc_id, result_map, result_keys,
          gs_map, system_map, system_keys,
          idx, ok, not_ok, precision, recall, f1

vars == <<gs_file, system_file, docs, pc, exc, line_no, doc_id, result_map,
          result_keys, gs_map, system_map, system_keys, idx, ok, not_ok,
          precision, recall, f1>>

-----------------------------------------------------------------------------
(* Python values *)

\* None, for a variable that otherwise holds a one-element tuple or a fraction
None == <<>>

\* the exception raised so far, if any
NoException == "None"

\* the docs argument: Optional[Set[int]]
NoDocs == [given |-> FALSE, ids |-> {}]

DocSet(ids) == [given |-> TRUE, ids |-> ids]

TAB == "\t"

\* The characters str.strip() and int() treat as whitespace, among those modelled.
IsSpace(c) == c \in {" ", TAB}

Digits == <<"0", "1", "2", "3", "4", "5", "6", "7", "8", "9">>

IsDigit(c) == \E i \in 1..Len(Digits) : Digits[i] = c

DigitVal(c) == (CHOOSE i \in 1..Len(Digits) : Digits[i] = c) - 1

UpperCase == <<"A", "B", "C", "D", "E", "F", "G", "H", "I", "J", "K", "L", "M",
               "N", "O", "P", "Q", "R", "S", "T", "U", "V", "W", "X", "Y", "Z">>

LowerCase == <<"a", "b", "c", "d", "e", "f", "g", "h", "i", "j", "k", "l", "m",
               "n", "o", "p", "q", "r", "s", "t", "u", "v", "w", "x", "y", "z">>

\* str.lower() on one character
LowerChar(c) ==
    IF \E i \in 1..Len(UpperCase) : UpperCase[i] = c
    THEN LowerCase[CHOOSE i \in 1..Len(UpperCase) : UpperCase[i] = c]
    ELSE c

\* str.lower()
lower(s) == [i \in 1..Len(s) |-> LowerChar(s[i])]

\* str.replace(old, new) for one-character old and new
replace(s, old, new) == [i \in 1..Len(s) |-> IF s[i] = old THEN new ELSE s[i]]

RECURSIVE lstrip(_)
lstrip(s) == IF s # <<>> /\ IsSpace(Head(s)) THEN lstrip(Tail(s)) ELSE s

RECURSIVE rstrip(_)
rstrip(s) ==
    IF s # <<>> /\ IsSpace(s[Len(s)]) THEN rstrip(SubSeq(s, 1, Len(s) - 1)) ELSE s

\* str.strip()
strip(s) == rstrip(lstrip(s))

\* str.index(c): the 0-based position of the first c; -1 stands for ValueError
index(s, c) ==
    IF \E i \in 1..Len(s) : s[i] = c
    THEN (CHOOSE i \in 1..Len(s) : s[i] = c /\ \A j \in 1..(i - 1) : s[j] # c) - 1
    ELSE -1

\* s[a:b] for 0 <= a and 0 <= b: clipped to the string, empty when a >= b
Slice(s, a, b) ==
    LET hi == IF b > Len(s) THEN Len(s) ELSE b
    IN  IF a >= hi THEN <<>> ELSE SubSeq(s, a + 1, hi)

\* str.split(sep) for a one-character sep: never fewer than one field
RECURSIVE split(_, _)
split(s, sep) ==
    LET i == index(s, sep)
    IN  IF i = -1 THEN <<s>>
        ELSE <<Slice(s, 0, i)>> \o split(Slice(s, i + 1, Len(s)), sep)

\* str.startswith(prefix)
startswith(s, prefix) ==
    Len(s) >= Len(prefix) /\ SubSeq(s, 1, Len(prefix)) = prefix

RECURSIVE DecimalValue(_)
DecimalValue(s) ==
    IF s = <<>> THEN 0
    ELSE LET c == s[Len(s)]
             rest == DecimalValue(SubSeq(s, 1, Len(s) - 1))
         IN  IF c = "_" THEN rest ELSE 10 * rest + DigitVal(c)

\* int(s): surrounding whitespace, an optional sign, then decimal digits that
\* single underscores may separate.  ok = FALSE stands for ValueError.
int(s) ==
    LET t == strip(s)
        signed == t # <<>> /\ t[1] \in {"+", "-"}
        body == IF signed THEN Tail(t) ELSE t
        valid == /\ body # <<>>
                 /\ \A i \in 1..Len(body) : IsDigit(body[i]) \/ body[i] = "_"
                 /\ IsDigit(body[1])
                 /\ IsDigit(body[Len(body)])
                 /\ \A i \in 1..(Len(body) - 1) : ~(body[i] = "_" /\ body[i + 1] = "_")
    IN  IF ~valid THEN [ok |-> FALSE, val |-> 0]
        ELSE [ok |-> TRUE,
              val |-> IF signed /\ t[1] = "-" THEN 0 - DecimalValue(body)
                      ELSE DecimalValue(body)]

\* truth value of the docs argument: None and the empty set are false
Truthy(d) == d.given /\ d.ids # {}

-----------------------------------------------------------------------------
(* floats, as exact fractions *)

RECURSIVE GCD(_, _)
GCD(a, b) == IF b = 0 THEN a ELSE GCD(b, a % b)

Frac(n, d) == IF n = 0 THEN <<0, 1>> ELSE <<n \div GCD(n, d), d \div GCD(n, d)>>

Zero == Frac(0, 1)

FAdd(x, y) == Frac(x[1] * y[2] + y[1] * x[2], x[2] * y[2])

FMul(x, y) == Frac(x[1] * y[1], x[2] * y[2])

\* what a division by zero would yield, were one evaluated: no fraction
DivisionByZero == <<0, 0>>

\* x / y
FDiv(x, y) == IF y[1] = 0 THEN DivisionByZero ELSE Frac(x[1] * y[2], x[2] * y[1])

FLess(x, y) == x[1] * y[2] < y[1] * x[2]

-----------------------------------------------------------------------------
(* read_file *)

EmptyMap == [k \in {} |-> {}]

\* annotation.lower().replace("_", " ")
normalize(annotation) == replace(lower(annotation), "_", " ")

\* parse_doc_id, had it looked for the "." from the "d" on:
\* parts[0].index(".", parts[0].index("d"))
parse_doc_id_dot_after_d(field0) ==
    LET d == index(field0, "d")
        rest == Slice(field0, d + 1, Len(field0))
        p == index(rest, ".")
    IN  IF d = -1 \/ p = -1 THEN [ok |-> FALSE, val |-> 0]
        ELSE int(Slice(rest, 0, p))

\* parts[0][parts[0].index("d") + 1 : parts[0].index(".")], then int(); both
\* index calls search the whole of parts[0]
parse_doc_id(field0) ==
    LET d == index(field0, "d")
        p == index(field0, ".")
    IN  IF d = -1 \/ p = -1 THEN [ok |-> FALSE, val |-> 0]
        ELSE int(Slice(field0, d + 1, p))

\* line_parts, had it not stripped the line: line.split("\t")
line_parts_unstripped(line) == split(line, TAB)

\* parts = line.strip().split("\t")
line_parts(line) == split(strip(line), TAB)

\* the labels a retained line adds: parts[2:], normalized
line_annotations(parts) == {normalize(parts[i]) : i \in 3..Len(parts)}

\* read_line, had it skipped only the lines of fewer than 2 parts
read_line_two_parts(map, keys, line, d) ==
    LET parts == line_parts(line)
        id == parse_doc_id(parts[1])
        key == parts[1] \o parts[2]
        old == IF key \in DOMAIN map THEN map[key] ELSE {}
    IN  IF Len(parts) < 2
        THEN [status |-> "short", doc_id |-> None, map |-> map, keys |-> keys]
        ELSE IF ~id.ok
        THEN [status |-> "raise", doc_id |-> None, map |-> map, keys |-> keys]
        ELSE IF Truthy(d) /\ id.val \notin d.ids
        THEN [status |-> "filtered", doc_id |-> <<id.val>>, map |-> map, keys |-> keys]
        ELSE [status |-> "add", doc_id |-> <<id.val>>,
              map |-> [k \in DOMAIN map \cup {key} |->
                          IF k = key THEN old \cup line_annotations(parts)
                          ELSE map[k]],
              keys |-> IF key \in DOMAIN map THEN keys ELSE Append(keys, key)]

\* One iteration of the loop over the file's lines.  status is "short" (fewer
\* than 3 parts: continue), "raise" (ValueError from index or int),
\* "filtered" (continue) or "add".
read_line(map, keys, line, d) ==
    LET parts == line_parts(line)
        id == parse_doc_id(parts[1])
        key == parts[1] \o parts[2]
        old == IF key \in DOMAIN map THEN map[key] ELSE {}
    IN  IF Len(parts) < 3
        THEN [status |-> "short", doc_id |-> None, map |-> map, keys |-> keys]
        ELSE IF ~id.ok
        THEN [status |-> "raise", doc_id |-> None, map |-> map, keys |-> keys]
        ELSE IF Truthy(d) /\ id.val \notin d.ids
        THEN [status |-> "filtered", doc_id |-> <<id.val>>, map |-> map, keys |-> keys]
        ELSE [status |-> "add", doc_id |-> <<id.val>>,
              map |-> [k \in DOMAIN map \cup {key} |->
                          IF k = key THEN old \cup line_annotations(parts)
                          ELSE map[k]],
              keys |-> IF key \in DOMAIN map THEN keys ELSE Append(keys, key)]

\* read_docs, had score passed docs to the first read_file call only
read_docs_gold_only(which) == IF which = "read_gs" THEN docs ELSE NoDocs

\* the docs argument score passes to each of its two read_file calls
read_docs(which) == docs

\* the file the current read_file call reads
CurrentFile == IF pc = "read_gs" THEN gs_file ELSE system_file

\* One line of the file being read.  An exception leaves read_file and score:
\* nothing is returned, and pc stays where it was raised.
ReadLine ==
    /\ pc \in {"read_gs", "read_system"}
    /\ exc = NoException
    /\ line_no < Len(CurrentFile)
    /\ LET r == read_line(result_map, result_keys, CurrentFile[line_no + 1],
                          read_docs(pc))
       IN  IF r.status = "raise"
           THEN /\ exc' = "ValueError"
                /\ UNCHANGED <<line_no, doc_id, result_map, result_keys>>
           ELSE /\ result_map' = r.map
                /\ result_keys' = r.keys
                /\ doc_id' = IF r.status = "short" THEN doc_id ELSE r.doc_id
                /\ line_no' = line_no + 1
                /\ UNCHANGED exc
    /\ UNCHANGED <<pc, gs_file, system_file, docs, gs_map, system_map, system_keys,
                   idx, ok, not_ok, precision, recall, f1>>

\* end of the file: read_file returns result_map to score
ReadReturn ==
    /\ pc \in {"read_gs", "read_system"}
    /\ exc = NoException
    /\ line_no = Len(CurrentFile)
    /\ IF pc = "read_gs"
       THEN /\ gs_map' = result_map
            /\ pc' = "read_system"
            /\ UNCHANGED <<system_map, system_keys>>
       ELSE /\ system_map' = result_map
            /\ system_keys' = result_keys
            /\ pc' = "score_loop"
            /\ UNCHANGED gs_map
    /\ result_map' = EmptyMap
    /\ result_keys' = <<>>
    /\ line_no' = 0
    /\ doc_id' = None
    /\ UNCHANGED <<gs_file, system_file, docs, exc, idx, ok, not_ok,
                   precision, recall, f1>>

-----------------------------------------------------------------------------
(* score *)

\* wn_answers, had it kept every gold answer
wn_answers_unfiltered(gold_answers) == gold_answers

\* {item for item in gold_answers if item.startswith("wn:")}
wn_answers(gold_answers) == {item \in gold_answers : startswith(item, <<"w", "n", ":">>)}

\* sum(1 for answer in system_answers if answer in gold_answers)
count_ok(system_answers, gold_answers) ==
    Cardinality({answer \in system_answers : answer \in gold_answers})

\* score_key, had it added local_ok and local_not_ok undivided
score_key_undivided(key, acc_ok, acc_not_ok, gs, sys) ==
    LET system_answers == sys[key]
        gold_answers == wn_answers(gs[key])
        answer_count == Cardinality(system_answers)
        local_ok == count_ok(system_answers, gold_answers)
        local_not_ok == answer_count - local_ok
    IN  IF key \notin DOMAIN gs
        THEN [status |-> "skip", ok |-> acc_ok, not_ok |-> acc_not_ok]
        ELSE IF answer_count = 0
        THEN [status |-> "raise", ok |-> acc_ok, not_ok |-> acc_not_ok]
        ELSE [status |-> "add",
              ok |-> FAdd(acc_ok, Frac(local_ok, 1)),
              not_ok |-> FAdd(acc_not_ok, Frac(local_not_ok, 1))]

\* score_key, had it counted a key the gold map lacks as wrong
score_key_penalizing(key, acc_ok, acc_not_ok, gs, sys) ==
    LET system_answers == sys[key]
        gold_answers == wn_answers(gs[key])
        answer_count == Cardinality(system_answers)
        local_ok == count_ok(system_answers, gold_answers)
        local_not_ok == answer_count - local_ok
    IN  IF key \notin DOMAIN gs
        THEN [status |-> "add", ok |-> acc_ok, not_ok |-> FAdd(acc_not_ok, Frac(1, 1))]
        ELSE IF answer_count = 0
        THEN [status |-> "raise", ok |-> acc_ok, not_ok |-> acc_not_ok]
        ELSE [status |-> "add",
              ok |-> FAdd(acc_ok, Frac(local_ok, answer_count)),
              not_ok |-> FAdd(acc_not_ok, Frac(local_not_ok, answer_count))]

\* One iteration of the loop over system_map.items().  status is "skip" (key
\* not in gs_map), "raise" (ZeroDivisionError) or "add".
score_key(key, acc_ok, acc_not_ok, gs, sys) ==
    LET system_answers == sys[key]
        gold_answers == wn_answers(gs[key])
        answer_count == Cardinality(system_answers)
        local_ok == count_ok(system_answers, gold_answers)
        local_not_ok == answer_count - local_ok
    IN  IF key \notin DOMAIN gs
        THEN [status |-> "skip", ok |-> acc_ok, not_ok |-> acc_not_ok]
        ELSE IF answer_count = 0
        THEN [status |-> "raise", ok |-> acc_ok, not_ok |-> acc_not_ok]
        ELSE [status |-> "add",
              ok |-> FAdd(acc_ok, Frac(local_ok, answer_count)),
              not_ok |-> FAdd(acc_not_ok, Frac(local_not_ok, answer_count))]

ScoreKey ==
    /\ pc = "score_loop"
    /\ exc = NoException
    /\ idx < Len(system_keys)
    /\ LET r == score_key(system_keys[idx + 1], ok, not_ok, gs_map, system_map)
       IN  IF r.status = "raise"
           THEN /\ exc' = "ZeroDivisionError"
                /\ UNCHANGED <<idx, ok, not_ok>>
           ELSE /\ ok' = r.ok
                /\ not_ok' = r.not_ok
                /\ idx' = idx + 1
                /\ UNCHANGED exc
    /\ UNCHANGED <<pc, gs_file, system_file, docs, line_no, doc_id, result_map,
                   result_keys, gs_map, system_map, system_keys,
                   precision, recall, f1>>

\* calc_precision without its guard: ok / (ok + not_ok)
calc_precision_unguarded(acc_ok, acc_not_ok) ==
    FDiv(acc_ok, FAdd(acc_ok, acc_not_ok))

\* precision = ok / (ok + not_ok) if (ok + not_ok) > 0 else 0
calc_precision(acc_ok, acc_not_ok) ==
    IF FLess(Zero, FAdd(acc_ok, acc_not_ok))
    THEN FDiv(acc_ok, FAdd(acc_ok, acc_not_ok))
    ELSE Zero

\* calc_recall, had it counted only the gold keys with a wn: label
calc_recall_wn_keys(acc_ok, gs) ==
    LET n == Cardinality({k \in DOMAIN gs : wn_answers(gs[k]) # {}})
    IN  IF n > 0 THEN FDiv(acc_ok, Frac(n, 1)) ELSE Zero

\* recall = ok / len(gs_map) if len(gs_map) > 0 else 0
calc_recall(acc_ok, gs) ==
    IF Cardinality(DOMAIN gs) > 0
    THEN FDiv(acc_ok, Frac(Cardinality(DOMAIN gs), 1))
    ELSE Zero

\* calc_f1 without the factor 2
calc_f1_unscaled(p, r) ==
    IF FLess(Zero, FAdd(p, r)) THEN FDiv(FMul(p, r), FAdd(p, r)) ELSE Zero

\* f1 = (2 * precision * recall) / (precision + recall) if (precision + recall) > 0 else 0
calc_f1(p, r) ==
    IF FLess(Zero, FAdd(p, r))
    THEN FDiv(FMul(FMul(Frac(2, 1), p), r), FAdd(p, r))
    ELSE Zero

\* after the loop: the three metrics, then return
Metrics ==
    /\ pc = "score_loop"
    /\ exc = NoException
    /\ idx = Len(system_keys)
    /\ precision' = calc_precision(ok, not_ok)
    /\ recall' = calc_recall(ok, gs_map)
    /\ f1' = calc_f1(calc_precision(ok, not_ok), calc_recall(ok, gs_map))
    /\ pc' = "done"
    /\ UNCHANGED <<gs_file, system_file, docs, exc, line_no, doc_id, result_map,
                   result_keys, gs_map, system_map, system_keys, idx, ok, not_ok>>

\* the loop over system_map.items(), from the first key to the last
RECURSIVE score_loop(_, _, _, _, _)
score_loop(keys, acc_ok, acc_not_ok, gs, sys) ==
    IF keys = <<>> THEN [ok |-> acc_ok, not_ok |-> acc_not_ok]
    ELSE LET r == score_key(Head(keys), acc_ok, acc_not_ok, gs, sys)
         IN  score_loop(Tail(keys), r.ok, r.not_ok, gs, sys)

\* what score returns on a gold map and a system map with its keys in order
score_maps(gs, sys, keys) ==
    LET acc == score_loop(keys, Zero, Zero, gs, sys)
        p == calc_precision(acc.ok, acc.not_ok)
        r == calc_recall(acc.ok, gs)
    IN  <<p, r, calc_f1(p, r)>>

Next == ReadLine \/ ReadReturn \/ ScoreKey \/ Metrics

-----------------------------------------------------------------------------
(* inputs *)

\* fields joined by tabs: one line of an annotation file
RECURSIVE Join(_)
Join(fields) ==
    IF Len(fields) = 1 THEN fields[1]
    ELSE fields[1] \o <<TAB>> \o Join(Tail(fields))

wn_a == <<"w", "n", ":", "a">>

wn_b == <<"w", "n", ":", "b">>

wn_c == <<"w", "n", ":", "c">>

WN_B == <<"W", "N", ":", "B">>

bn_a == <<"b", "n", ":", "a">>

wn_a_b == <<"w", "n", ":", "a", "_", "b">>

WN_A_B == <<"W", "N", ":", "A", "_", "B">>

d01s == <<"d", "0", "1", ".", "s">>

d2s == <<"d", "2", ".", "s">>

\* the lines the gold files of Spec are made of: two keys with wn: labels
\* only, one with a foreign label only, one with both, one malformed token
GoldLines ==
    { Join(<<d01s, <<"x">>, wn_a, wn_b>>),
      Join(<<d01s, <<"y">>, bn_a>>),
      Join(<<d2s, <<"x">>, bn_a, WN_A_B>>),
      Join(<<d2s, <<"y">>, wn_c>>),
      Join(<<<<"s", "1">>, <<"x">>, wn_a>>) }

\* the lines the system files of Spec are made of
SystemLines ==
    { Join(<<d01s, <<"x">>, wn_a, wn_c>>),
      Join(<<d01s, <<"x">>, WN_B, wn_a>>),
      Join(<<d01s, <<"y">>, bn_a>>),
      Join(<<d2s, <<"x">>, bn_a, wn_a_b>>),
      Join(<<d2s, <<"y">>, wn_c>>),
      Join(<<d01s, <<"z">>, <<>>>>) }

MaxGoldLines == 2

MaxSystemLines == 2

FilesUpTo(n, lines) == UNION {[1..k -> lines] : k \in 0..n}

\* the document filters score is called with
DocFilters == {NoDocs, DocSet({}), DocSet({1}), DocSet({2})}

\* score has just been called: nothing read, nothing returned
InitState ==
    /\ pc = "read_gs"
    /\ exc = NoException
    /\ line_no = 0
    /\ doc_id = None
    /\ result_map = EmptyMap
    /\ result_keys = <<>>
    /\ gs_map = EmptyMap
    /\ system_map = EmptyMap
    /\ system_keys = <<>>
    /\ idx = 0
    /\ ok = Zero
    /\ not_ok = Zero
    /\ precision = None
    /\ recall = None
    /\ f1 = None

Init ==
    /\ gs_file \in FilesUpTo(MaxGoldLines, GoldLines)
    /\ system_file \in FilesUpTo(MaxSystemLines, SystemLines)
    /\ docs \in DocFilters
    /\ InitState

Spec == Init /\ [][Next]_vars

\* the characters the lines of SpecRead begin with
Alphabet == {"d", ".", "1", "-", " ", TAB}

MaxHeadLen == 4

StringsUpTo(n, chars) == UNION {[1..k -> chars] : k \in 0..n}

WN_W == <<"W", "N", ":", "W">>

wn_w == <<"w", "n", ":", "w">>

\* how the lines of SpecRead end: nothing, a fragment and no label, a
\* fragment and a label, a fragment and a trailing tab, an empty label
Tails ==
    { <<>>,
      <<TAB, "b">>,
      <<TAB, "b", TAB>> \o WN_W,
      <<TAB, "b", TAB>>,
      <<TAB, "b", TAB, TAB, "w">> }

\* the gold file of SpecRead
ReadGoldFile ==
    << Join(<<<<"d", "1", ".">>, <<"b">>, wn_w>>),
       Join(<<<<"d", "1", ".", "-">>, <<"b">>, <<"w">>>>) >>

\* a gold file that reads well, then a system file of one line, any
\* string of up to MaxHeadLen characters followed by one of Tails
InitRead ==
    /\ gs_file = ReadGoldFile
    /\ \E head \in StringsUpTo(MaxHeadLen, Alphabet), tail \in Tails :
           system_file = <<head \o tail>>
    /\ docs \in {NoDocs, DocSet({}), DocSet({1})}
    /\ InitState

SpecRead == InitRead /\ [][Next]_vars

-----------------------------------------------------------------------------
(* what the claims speak of *)

\* the first read_file call of score has returned gs_map
GsReturned == pc \in {"read_system", "score_loop", "done"}

\* both read_file calls of score have returned
SystemReturned == pc \in {"score_loop", "done"}

Raised == exc # NoException

LinesOf(file) == {file[i] : i \in 1..Len(file)}

\* position i holds the first c of s
FirstAt(s, c, i) == i \in 1..Len(s) /\ s[i] = c /\ \A j \in 1..(i - 1) : s[j] # c

\* position j holds the first c of s after position i
FirstAfter(s, c, i, j) ==
    j \in (i + 1)..Len(s) /\ s[j] = c /\ \A k \in (i + 1)..(j - 1) : s[k] # c

\* the text between the first "d" of s and the first "." of s, when the "."
\* comes after the "d": a set of one token, or empty
DocTokens(s) ==
    {SubSeq(s, p[1] + 1, p[2] - 1) :
        p \in {q \in (1..Len(s)) \X (1..Len(s)) :
                  FirstAt(s, "d", q[1]) /\ FirstAt(s, ".", q[2]) /\ q[1] < q[2]}}

\* the text between the first "d" of s and the first "." after that "d"
DocTokensAfter(s) ==
    {SubSeq(s, p[1] + 1, p[2] - 1) :
        p \in {q \in (1..Len(s)) \X (1..Len(s)) :
                  FirstAt(s, "d", q[1]) /\ FirstAfter(s, ".", q[1], q[2])}}

\* the tokens spell an integer
Numeric(tokens) == \E t \in tokens : int(t).ok

NumericValue(tokens) == int(CHOOSE t \in tokens : int(t).ok).val

\* the fields of a line after its leading and trailing whitespace is dropped
Fields(line) == split(strip(line), TAB)

\* the fields of a line as it stands in the file
RawFields(line) == split(line, TAB)

WellFormed(line) == Len(Fields(line)) >= 3

KeyOf(line) == Fields(line)[1] \o Fields(line)[2]

DocOk(line) == Numeric(DocTokens(Fields(line)[1]))

DocOf(line) == NumericValue(DocTokens(Fields(line)[1]))

LabelsOf(line) == {normalize(Fields(line)[i]) : i \in 3..Len(Fields(line))}

\* the line passes the document filter d
Passes(line, d) == ~Truthy(d) \/ DocOf(line) \in d.ids

Retained(file, d) == {l \in LinesOf(file) : WellFormed(l) /\ Passes(l, d)}

\* map is the annotation map of the lines of file that filter d retains,
\* and holds no key of a well-formed line that d drops
IsMapOf(map, file, d) ==
    LET fields == [i \in 1..Len(file) |-> Fields(file[i])]
        wellFormed == {i \in 1..Len(file) : Len(fields[i]) >= 3}
        doc == [i \in wellFormed |-> NumericValue(DocTokens(fields[i][1]))]
        kept == {i \in wellFormed : ~Truthy(d) \/ doc[i] \in d.ids}
        key == [i \in wellFormed |-> fields[i][1] \o fields[i][2]]
        labels == [i \in kept |-> {normalize(fields[i][j]) : j \in 3..Len(fields[i])}]
    IN  /\ DOMAIN map = {key[i] : i \in kept}
        /\ \A k \in DOMAIN map : map[k] = UNION {labels[i] : i \in {j \in kept : key[j] = k}}
        /\ \A i \in wellFormed \ kept : key[i] \notin DOMAIN map

\* the keys score has been through
Processed == {system_keys[i] : i \in 1..idx}

Shared == DOMAIN system_map \cap DOMAIN gs_map

WnGold(k) == {g \in gs_map[k] : startswith(g, <<"w", "n", ":">>)}

\* n, c and the number of system answers equal to a gold label without wn:
AnswerCount(k) == Cardinality(system_map[k])

CorrectCount(k) == Cardinality(system_map[k] \cap WnGold(k))

ForeignCount(k) == Cardinality(system_map[k] \cap (gs_map[k] \ WnGold(k)))

RECURSIVE SumCredit(_)
SumCredit(keys) ==
    IF keys = {} THEN Zero
    ELSE LET k == CHOOSE x \in keys : TRUE
         IN  FAdd(Frac(CorrectCount(k), AnswerCount(k)), SumCredit(keys \ {k}))

RECURSIVE SumPenalty(_)
SumPenalty(keys) ==
    IF keys = {} THEN Zero
    ELSE LET k == CHOOSE x \in keys : TRUE
         IN  FAdd(Frac(AnswerCount(k) - CorrectCount(k), AnswerCount(k)),
                  SumPenalty(keys \ {k}))

\* a fraction in [0, 1]
InUnit(x) == Len(x) = 2 /\ x[2] > 0 /\ 0 <= x[1] /\ x[1] <= x[2]

One == Frac(1, 1)

Half == Frac(1, 2)

FLeq(x, y) == x[1] * y[2] <= y[1] * x[2]

-----------------------------------------------------------------------------
(* C1 *)

\* C1: whenever both reads succeed, score raises nothing (its divisions are
\* never by zero, also when the system map, the gold map or both are empty)
\* and the precision, the recall and the F1 it returns each lie in [0, 1].
C1_ScoresInUnitInterval ==
    /\ SystemReturned => ~Raised
    /\ pc = "done" => InUnit(precision) /\ InUnit(recall) /\ InUnit(f1)

\* score has returned on two empty maps
C1_Witness ==
    /\ pc = "done"
    /\ DOMAIN gs_map = {}
    /\ DOMAIN system_map = {}
    /\ precision = Zero /\ recall = Zero /\ f1 = Zero

-----------------------------------------------------------------------------
(* C2 *)

\* C2: each key of the system map that the gold map holds too adds c/n to ok
\* and (n - c)/n to not_ok, n being the number of its system answers and c
\* the number of them among the gold answers that start with wn:, and the
\* precision is ok / (ok + not_ok) of those sums.
C2_FractionalCredit ==
    /\ SystemReturned =>
          /\ ok = SumCredit(Processed \cap Shared)
          /\ not_ok = SumPenalty(Processed \cap Shared)
    /\ pc = "done" /\ Shared # {} =>
          precision = FDiv(SumCredit(Shared),
                           FAdd(SumCredit(Shared), SumPenalty(Shared)))

\* gold {wn:a, wn:b} against system {wn:a, wn:c} on one key: 0.5 each
C2_Witness ==
    /\ pc = "done"
    /\ Cardinality(DOMAIN gs_map) = 1
    /\ DOMAIN system_map = DOMAIN gs_map
    /\ \A k \in DOMAIN gs_map :
           gs_map[k] = {wn_a, wn_b} /\ system_map[k] = {wn_a, wn_c}
    /\ precision = Half /\ recall = Half /\ f1 = Half

-----------------------------------------------------------------------------
(* C5 *)

\* C5: the recall is ok divided by the number of distinct keys of the whole
\* gold map, the gold file's retained lines' keys, whether or not the system
\* map holds them and whether or not their labels start with wn:, and 0 when
\* the gold map is empty.
C5_RecallOverAllGoldKeys ==
    pc = "done" =>
        LET n == Cardinality({KeyOf(l) : l \in Retained(gs_file, docs)})
        IN  recall = IF n = 0 THEN Zero ELSE FDiv(SumCredit(Shared), Frac(n, 1))

\* a gold key the system lacks and a gold key without a wn: label both
\* count in the denominator of a recall that is not 0
C5_Witness ==
    /\ pc = "done"
    /\ \E k \in DOMAIN gs_map : k \notin DOMAIN system_map
    /\ \E k \in DOMAIN gs_map : WnGold(k) = {}
    /\ FLess(Zero, recall)
    /\ recall = FDiv(ok, Frac(Cardinality(DOMAIN gs_map), 1))

-----------------------------------------------------------------------------
(* C3 *)

\* the system map without the keys the gold map lacks
SharedKeys == SelectSeq(system_keys, LAMBDA k : k \in DOMAIN gs_map)

SharedMap == [k \in Shared |-> system_map[k]]

\* C3: a key of the system map that the gold map lacks adds nothing to ok or
\* not_ok: with or without such keys, whatever their annotations, the
\* system map gets the same precision, recall and F1.
C3_SystemOnlyKeysIgnored ==
    pc = "done" =>
        /\ <<precision, recall, f1>> = score_maps(gs_map, SharedMap, SharedKeys)
        /\ FAdd(ok, not_ok) = Frac(Cardinality(Shared), 1)

\* score has returned on a system map with a key of the gold map and a key
\* the gold map lacks
C3_Witness ==
    /\ pc = "done"
    /\ Shared # {}
    /\ \E k \in DOMAIN system_map : k \notin DOMAIN gs_map
    /\ FLess(Zero, precision)

-----------------------------------------------------------------------------
(* C4 *)

\* C4: a gold label that does not start with wn: is never a correct match.
\* On every key of both maps, the system answers equal to such a label are
\* in what is added to not_ok and not in what is added to ok, and when no
\* gold label of the key starts with wn:, ok stays and not_ok grows by 1.
C4_ForeignGoldNeverMatches ==
    [][(pc = "score_loop" /\ idx' = idx + 1 /\ system_keys[idx + 1] \in DOMAIN gs_map) =>
          LET k == system_keys[idx + 1]
              foreign == Frac(ForeignCount(k), AnswerCount(k))
          IN  /\ FLeq(FAdd(not_ok, foreign), not_ok')
              /\ FLeq(FAdd(ok', foreign), FAdd(ok, One))
              /\ WnGold(k) = {} => ok' = ok /\ not_ok' = FAdd(not_ok, One)]_vars

\* score has been through a key whose system answers are a gold label
\* without wn: and a gold label with it, and through a key whose only gold
\* label, without wn:, is the system's answer
C4_Witness ==
    /\ pc = "done"
    /\ \E k \in Shared : ForeignCount(k) = 1 /\ CorrectCount(k) = 1 /\ AnswerCount(k) = 2
    /\ \E k \in Shared : WnGold(k) = {} /\ system_map[k] = gs_map[k]
    /\ ok = Half
    /\ not_ok = FAdd(One, Half)

-----------------------------------------------------------------------------
(* C6 *)

MapsIdentical ==
    /\ DOMAIN gs_map = DOMAIN system_map
    /\ \A k \in DOMAIN gs_map : gs_map[k] = system_map[k]

AllGoldWn == \A k \in DOMAIN gs_map : WnGold(k) = gs_map[k]

AllOne == precision = One /\ recall = One /\ f1 = One

\* C6, as stated: identical maps whose gold labels all start with wn: score
\* precision = recall = F1 = 1.
C6_IdenticalMapsScoreOne ==
    pc = "done" /\ MapsIdentical /\ AllGoldWn => AllOne

\* C6, amended: identical maps that are not empty and whose gold labels all
\* start with wn: score precision = recall = F1 = 1.
C6_IdenticalNonEmptyMapsScoreOne ==
    pc = "done" /\ MapsIdentical /\ AllGoldWn /\ DOMAIN gs_map # {} => AllOne

\* score has returned 1, 1, 1 on identical maps of two keys
C6_Witness ==
    /\ pc = "done"
    /\ MapsIdentical
    /\ AllGoldWn
    /\ Cardinality(DOMAIN gs_map) = 2
    /\ AllOne

-----------------------------------------------------------------------------
(* C8 *)

\* the well-formed lines of the file that filter d drops
FilteredOut(file, d) == {l \in LinesOf(file) : WellFormed(l) /\ ~Passes(l, d)}

\* C8: under a filter that is not empty, a line whose document id is not in
\* it creates no entry and adds no label; under an empty or absent filter
\* every well-formed line is retained; and score reads the gold file and the
\* system file under the same filter.
\* (Stated of each map as read_file returns it; score never writes to it.)
C8_DocumentFilter ==
    /\ pc = "read_system" /\ line_no = 0 => IsMapOf(gs_map, gs_file, docs)
    /\ pc = "score_loop" /\ idx = 0 => IsMapOf(system_map, system_file, docs)

\* both files have been read under a filter that dropped a line of each
\* and retained a line of each
C8_Witness ==
    /\ SystemReturned
    /\ Truthy(docs)
    /\ FilteredOut(gs_file, docs) # {}
    /\ FilteredOut(system_file, docs) # {}
    /\ DOMAIN gs_map # {}
    /\ DOMAIN system_map # {}

-----------------------------------------------------------------------------
(* C7 *)

\* C7, as stated: with an empty or absent filter the keys of the returned
\* map are the field0 + field1 of the lines of the file that have at least 3
\* tab-separated fields.
C7_KeysOfLinesAsWritten ==
    SystemReturned /\ ~Truthy(docs) =>
        DOMAIN system_map =
            {RawFields(l)[1] \o RawFields(l)[2] :
                l \in {r \in LinesOf(system_file) : Len(RawFields(r)) >= 3}}

\* C7, amended: with an empty or absent filter the keys of the returned map
\* are the field0 + field1 of the lines that have at least 3 tab-separated
\* fields once their leading and trailing whitespace is dropped, the fields
\* being those of the stripped line; other lines create no entry.
C7_KeysOfStrippedLines ==
    /\ GsReturned /\ ~Truthy(docs) =>
          DOMAIN gs_map = {KeyOf(l) : l \in {r \in LinesOf(gs_file) : WellFormed(r)}}
    /\ SystemReturned /\ ~Truthy(docs) =>
          DOMAIN system_map =
              {KeyOf(l) : l \in {r \in LinesOf(system_file) : WellFormed(r)}}

\* read_file has returned the key of a line it had to strip
C7_Witness ==
    /\ SystemReturned
    /\ ~Truthy(docs)
    /\ \E l \in LinesOf(system_file) :
           /\ strip(l) # l
           /\ WellFormed(l)
           /\ DOMAIN system_map = {KeyOf(l)}
           /\ KeyOf(l) # RawFields(l)[1] \o RawFields(l)[2]

-----------------------------------------------------------------------------
(* C9 *)

\* a line of the two leading fields and no label, kept by filter d
TwoFieldLines(file, d) ==
    {l \in LinesOf(file) :
        /\ Len(RawFields(l)) = 2
        /\ RawFields(l)[2] # <<>>
        /\ Numeric(DocTokens(RawFields(l)[1]))
        /\ ~Truthy(d) \/ NumericValue(DocTokens(RawFields(l)[1])) \in d.ids}

\* C9, as stated: a line of the two leading fields and no label is recorded
\* with an empty set, which adds 0 to ok and to not_ok without a division
\* by zero.
C9_EmptySetRecorded ==
    SystemReturned =>
        /\ \A l \in TwoFieldLines(system_file, docs) :
               LET k == RawFields(l)[1] \o RawFields(l)[2]
               IN  k \in DOMAIN system_map /\ system_map[k] = {}
        /\ exc # "ZeroDivisionError"

NoEmptySet(map) == \A k \in DOMAIN map : map[k] # {}

\* C9, amended: no key has an empty annotation set.  A line of the two
\* leading fields and no label has fewer than 3 fields and creates no entry,
\* every key of a returned map comes from a line with a label, so n >= 1 and
\* score never divides by zero in its loop.
C9_NoEmptyAnnotationSet ==
    /\ NoEmptySet(result_map) /\ NoEmptySet(gs_map) /\ NoEmptySet(system_map)
    /\ exc # "ZeroDivisionError"
    /\ SystemReturned =>
          \A k \in DOMAIN system_map :
              \E l \in LinesOf(system_file) :
                  WellFormed(l) /\ KeyOf(l) = k /\ LabelsOf(l) # {}
                    /\ LabelsOf(l) \subseteq system_map[k]

\* score has returned on a system file of one line of two fields, whose key
\* the gold map holds: the system map is empty
C9_Witness ==
    /\ pc = "done"
    /\ TwoFieldLines(system_file, docs) # {}
    /\ \E l \in TwoFieldLines(system_file, docs) :
           RawFields(l)[1] \o RawFields(l)[2] \in DOMAIN gs_map
    /\ DOMAIN system_map = {}
    /\ ok = Zero /\ not_ok = Zero

-----------------------------------------------------------------------------
(* C10 *)

Reading == pc \in {"read_gs", "read_system"}

\* the lines read_file has been through without raising
PassedLines ==
    IF pc = "read_gs" THEN {gs_file[i] : i \in 1..line_no}
    ELSE IF pc = "read_system"
    THEN LinesOf(gs_file) \cup {system_file[i] : i \in 1..line_no}
    ELSE LinesOf(gs_file) \cup LinesOf(system_file)

\* read_file takes the document id from the token Tokens finds in field 0,
\* and raises on the lines of at least 3 fields where no token is numeric
DocIdRule(Tokens(_)) ==
    /\ \A l \in PassedLines : WellFormed(l) => Numeric(Tokens(Fields(l)[1]))
    /\ Raised /\ Reading =>
          /\ exc = "ValueError"
          /\ WellFormed(CurrentFile[line_no + 1])
          /\ ~Numeric(Tokens(Fields(CurrentFile[line_no + 1])[1]))
          /\ precision = None /\ recall = None /\ f1 = None
          /\ pc = "read_gs" => gs_map = EmptyMap
          /\ system_map = EmptyMap
    /\ Reading /\ line_no >= 1 /\ WellFormed(CurrentFile[line_no]) =>
          doc_id = <<NumericValue(Tokens(Fields(CurrentFile[line_no])[1]))>>

\* C10, as stated: on a line of at least 3 fields the document id is the
\* integer between the first "d" of field 0 and the first "." after that
\* "d"; read_file raises, and score returns nothing, exactly when there is no
\* such text or it is not numeric, with or without a filter, and never on a
\* line of fewer than 3 fields.
C10_DocIdUpToDotAfterD == DocIdRule(DocTokensAfter)

\* C10, amended: the document id is the integer between the first "d" of
\* field 0 and the first "." of field 0, wherever that "." is; read_file
\* raises exactly when field 0 has no "d", no ".", its first "." is not
\* after its first "d", or the text between them is not an integer literal
\* (sign, whitespace around it and single underscores allowed).
C10_DocIdUpToFirstDot == DocIdRule(DocTokens)

\* the system file's line has text between "d" and "." that is no number:
\* read_file has raised after the gold file was read, under no filter
C10_Witness ==
    /\ Raised
    /\ pc = "read_system"
    /\ ~docs.given
    /\ DOMAIN gs_map # {}
    /\ \E t \in DocTokens(Fields(system_file[line_no + 1])[1]) : t # <<>> /\ ~int(t).ok
    /\ precision = None

====
